---- MODULE Spec2Model ----
(***************************************************************************)
(* Resumable zip extraction: ZipExtractor.Resume and the Source, Sink,     *)
(* Copier and SaveConsumer it drives.                                      *)
(***************************************************************************)
EXTENDS Integers, Sequences, FiniteSets, TLC

\* ---- bounds ------------------------------------------------------------
MaxEntries == 2
MaxSize == 2
BlockSize == 2

\* ---- values ------------------------------------------------------------
\* a Go nil pointer / a non-nil pointer to x
Nil == <<>>
Some(x) == <<x>>

ResumableMethodsAll == {"Store", "Deflate", "Other"}

\* the compression methods for which Resume builds a Source
ResumableMethods == {"Store", "Deflate"}
Methods == ResumableMethods \cup {"Other"}

\* the members a zip.Reader can list: directories carry no payload, a symlink's
\* payload is its (non-empty) target, a file has a method and a payload that
\* is empty or MaxSize bytes long
ZipFiles ==
  {[kind |-> "Dir", method |-> "Store", size |-> 0],
   [kind |-> "Symlink", method |-> "Store", size |-> 1]}
  \cup {[kind |-> "File", method |-> m, size |-> s] : m \in Methods, s \in {0, MaxSize}}

Archives == UNION {[1..n -> ZipFiles] : n \in 0..MaxEntries}

\* the uncompressed payload of a member: byte k (0-based) has value k+1, so
\* that a byte written at the wrong offset is visible; 0 is a preallocated hole
Data(size) == [k \in 1..size |-> k]

\* savior.Entry as the driver uses it
zipFileEntry(zf) == [kind |-> zf.kind, size |-> zf.size, writeOffset |-> 0]

RECURSIVE SumSizes(_, _)
SumSizes(zr, n) == IF n = 0 THEN 0 ELSE SumSizes(zr, n - 1) + zr[n].size

TotalBytes(zr) == SumSizes(zr, Len(zr))

InitialDoneBytesOffByOne(zr, idx) ==
  SumSizes(zr, IF idx + 1 <= Len(zr) THEN idx + 1 ELSE Len(zr))

InitialDoneBytes(zr, idx) == SumSizes(zr, IF idx <= Len(zr) THEN idx ELSE Len(zr))

computeProgressEntryOnly(done, writeOffset, total) == <<writeOffset, total>>

\* progress is the pair <<numerator, denominator>> of the float64 division
computeProgress(done, writeOffset, total) == <<done + writeOffset, total>>

FreshCheckpoint ==
  [entryIndex |-> 0, progress |-> <<0, 1>>, entry |-> Nil, sourceCheckpoint |-> Nil]

EntryForFresh(cp, zf) == zipFileEntry(zf)

EntryFor(cp, zf) == IF cp.entry = Nil THEN zipFileEntry(zf) ELSE cp.entry[1]

NeedsPreallocateAny(entry) == TRUE

NeedsPreallocate(entry) == entry.kind = "File"

LoopStartZero(cp) == 0

LoopStart(cp) == cp.entryIndex

LoopContinuesIgnoringStop(idx, numEntries, stopped) == idx < numEntries

LoopContinues(idx, numEntries, stopped) == idx < numEntries /\ ~stopped

AlignDeltaNone(offset, writeOffset) == 0

AlignDelta(offset, writeOffset) ==
  IF offset < writeOffset THEN writeOffset - offset ELSE 0

DoneBytesAfterStuck(done, zf) == done

DoneBytesAfter(done, zf) == done + zf.size

ClearedSourceOnly(cp) == [cp EXCEPT !.sourceCheckpoint = Nil]

\* the end of the loop body forgets the entry it has processed
Cleared(cp) == [cp EXCEPT !.sourceCheckpoint = Nil, !.entry = Nil]

NextIndexStuck(idx) == idx

\* entryIndex++ of the entry loop
NextIndex(idx) == idx + 1

WithSourceCheckpointDropped(cp, sc) == cp

\* OnSave stores the Source's checkpoint before anything else
WithSourceCheckpoint(cp, sc) == [cp EXCEPT !.sourceCheckpoint = Some(sc)]

SaveCalledAlways(syncFailed) == TRUE

\* OnSave reaches saveConsumer.Save only when writer.Sync returned no error
SaveCalled(syncFailed) == ~syncFailed

ResultEntriesProcessed(zr, from) ==
  [i \in 1..(Len(zr) - from) |-> zipFileEntry(zr[i + from])]

\* ExtractorResult.Entries: one entry per member of the archive, whatever the
\* index the call started from
ResultEntries(zr, from) == [i \in 1..Len(zr) |-> zipFileEntry(zr[i])]

\* the operations on the current writer, the last two of them
Last2(ops) == IF Len(ops) > 2 THEN SubSeq(ops, Len(ops) - 1, Len(ops)) ELSE ops

\* the os/arch pairs the formulas generator hashes, in the order of its loop
osarches ==
  <<"windows-386", "windows-amd64", "linux-386", "linux-amd64", "darwin-amd64">>

OsArchSet == {osarches[i] : i \in 1..Len(osarches)}

CanLockAlways(mutex) == TRUE

\* sync.Mutex.Lock returns only when nobody holds the mutex
CanLock(mutex) == mutex = Nil

\* ---- collaborators ------------------------------------------------------
\* Source.Resume: the produced offset the stream restarts from
SourceResumeOffset(sc) == IF sc = Nil THEN 0 ELSE sc[1].offset

\* the SourceCheckpoint a Source hands to its save consumer at produced offset
\* off: a raw source resumes anywhere, a deflate source at block boundaries
NewSourceCheckpoint(method, off) ==
  [offset |-> IF method = "Store" THEN off ELSE (off \div BlockSize) * BlockSize]

\* a writer obtained from the Sink writes at its current offset
WriteAt(f, pos, bytes) ==
  LET newLen == IF pos + Len(bytes) > Len(f) THEN pos + Len(bytes) ELSE Len(f)
  IN [k \in 1..newLen |->
        IF k > pos /\ k <= pos + Len(bytes) THEN bytes[k - pos]
        ELSE IF k <= Len(f) THEN f[k] ELSE 0]

\* Sink.Preallocate reserves the entry's size on disk
Preallocated(size) == [k \in 1..size |-> 0]

\* ---- state --------------------------------------------------------------
VARIABLES
  archive,      \* zr.File
  pc,           \* position of the Resume call
  checkpoint,   \* the *ExtractorCheckpoint the call works on
  saved,        \* what the SaveConsumer persisted at the last Save
  isFresh, doneBytes, totalBytes, entryIndex, stopError,
  preIdx,       \* index of the preallocation loop
  copierStop,   \* Copier.stop
  wantSave,     \* the Source was asked to save at its next safe point
  srcOff,       \* produced offset of the current Source
  writerPos,    \* offset of the current writer
  files,        \* destination: bytes of each entry's file
  result, err,  \* what Resume returned: Nil or Some(ExtractorResult.Entries),
                \* and "nil", "ErrStop" or "error"
  prealloc,     \* Preallocate calls of this call, per entry
  sinkOps,      \* entries on which Mkdir/Symlink/GetWriter ran in this call
  lastProg,     \* last progress value reported in this call
  align,        \* offsets of the resumable entry being copied
  firstWrite,   \* first write of the Copier into the current entry
  writerOps,    \* last two of GetWriter/Write/Sync/Save on the current writer
  stopAt,       \* entry during which Save returned stop
  interrupted,  \* an unsupported-method entry whose copy just failed
  resumedAfter, \* `interrupted` of the call before this one
  startIndex,   \* checkpoint.EntryIndex when this call began
  chainKind,    \* how the calls before this one ended: "fresh" (there are
                \* none), "stops" (all with ErrStop), "failed" (one with an error)
  \* the formulas generator
  mainPc,       \* position of main
  wpc,          \* position of each work goroutine
  numTasks,     \* goroutines started
  received,     \* values main has received from the done channel
  mapMutex,     \* Nil, or Some(the goroutine holding it)
  depSpecMap,   \* keys of the shared result map
  generated     \* keys of the map handed to the template, once it has run

\* the sequence of calls
chain == <<startIndex, chainKind, resumedAfter>>
\* what Resume returns, and the checkpoint it leaves
outcome == <<pc, result, err, checkpoint>>
\* the locals of one resumable copy
copy == <<srcOff, writerPos, wantSave, align, firstWrite, writerOps>>
\* the locals of the entry loop
loop == <<doneBytes, entryIndex>>
\* what the save consumer decided
stop == <<stopError, copierStop, stopAt>>
\* fixed during a call
call == <<archive, isFresh, totalBytes>>

zipVars == <<archive, pc, checkpoint, saved, isFresh, doneBytes, totalBytes,
          entryIndex, stopError, preIdx, copierStop, wantSave, srcOff,
          writerPos, files, result, err, prealloc, sinkOps, lastProg,
          align, firstWrite, writerOps, stopAt, interrupted, resumedAfter,
          startIndex, chainKind>>

genVars == <<mainPc, wpc, numTasks, received, mapMutex, depSpecMap, generated>>

vars == <<zipVars, genVars>>

NumEntries == Len(archive)
Indices == 0..(NumEntries - 1)
zf == archive[entryIndex + 1]
entry == checkpoint.entry[1]

Init ==
  /\ archive \in Archives
  /\ pc = "init"
  /\ checkpoint = FreshCheckpoint
  /\ saved = Nil
  /\ isFresh = FALSE
  /\ doneBytes = 0
  /\ totalBytes = 0
  /\ entryIndex = 0
  /\ stopError = FALSE
  /\ preIdx = 0
  /\ copierStop = FALSE
  /\ wantSave = FALSE
  /\ srcOff = 0
  /\ writerPos = 0
  /\ files = [i \in 0..(Len(archive) - 1) |-> <<>>]
  /\ result = Nil
  /\ err = "nil"
  /\ prealloc = [i \in 0..(Len(archive) - 1) |-> 0]
  /\ sinkOps = <<>>
  /\ lastProg = Nil
  /\ align = Nil
  /\ firstWrite = Nil
  /\ writerOps = <<>>
  /\ stopAt = Nil
  /\ interrupted = Nil
  /\ resumedAfter = Nil
  /\ startIndex = 0
  /\ chainKind = "fresh"
  /\ mainPc = "spawn"
  /\ wpc = [o \in OsArchSet |-> "idle"]
  /\ numTasks = 0
  /\ received = 0
  /\ mapMutex = Nil
  /\ depSpecMap = {}
  /\ generated = Nil

\* ---- helpers of the actions ----------------------------------------------
FailRetry(cp) ==
  /\ pc' = "loop"
  /\ result' = Nil
  /\ err' = "error"
  /\ checkpoint' = cp

\* Resume returns (nil, wrapped error)
Fail(cp) ==
  /\ pc' = "returned"
  /\ result' = Nil
  /\ err' = "error"
  /\ checkpoint' = cp

\* a progress value is reported
Report(p) == lastProg' = Some(p)

\* end of the loop body, lines 273-283; the Source and the writer of the
\* entry go out of scope
FinishEntry(cp) ==
  /\ doneBytes' = DoneBytesAfter(doneBytes, zf)
  /\ checkpoint' = Cleared(cp)
  /\ entryIndex' = NextIndex(entryIndex)
  /\ pc' = "loop"
  /\ srcOff' = 0
  /\ writerPos' = 0
  /\ wantSave' = FALSE
  /\ align' = Nil
  /\ firstWrite' = Nil
  /\ writerOps' = <<>>
  /\ UNCHANGED <<result, err>>

\* lines 71-96 and 114-119
Begin(cp, fresh) ==
  /\ checkpoint' = cp
  /\ isFresh' = fresh
  /\ totalBytes' = TotalBytes(archive)
  /\ doneBytes' = InitialDoneBytes(archive, cp.entryIndex)
  /\ entryIndex' = LoopStart(cp)
  /\ pc' = IF fresh THEN "prealloc" ELSE "loop"
  /\ preIdx' = 0
  /\ stopError' = FALSE
  /\ copierStop' = FALSE
  /\ wantSave' = FALSE
  /\ srcOff' = 0
  /\ writerPos' = 0
  /\ result' = Nil
  /\ err' = "nil"
  /\ prealloc' = [i \in Indices |-> 0]
  /\ sinkOps' = <<>>
  /\ lastProg' = Nil
  /\ align' = Nil
  /\ firstWrite' = Nil
  /\ writerOps' = <<>>
  /\ stopAt' = Nil
  /\ resumedAfter' = interrupted
  /\ interrupted' = Nil
  /\ startIndex' = cp.entryIndex
  /\ UNCHANGED <<archive, files, genVars>>

\* ---- actions --------------------------------------------------------------
\* Resume(nil, sink) on an empty destination
StartFresh ==
  /\ pc = "init"
  /\ Begin(FreshCheckpoint, TRUE)
  /\ saved' = Nil
  /\ chainKind' = "fresh"

\* Resume(last checkpoint offered to the SaveConsumer, sink), after a call
\* that stopped or failed
StartResume ==
  /\ pc = "returned"
  /\ result = Nil
  /\ saved # Nil
  /\ Begin(saved[1], FALSE)
  /\ chainKind' = IF err = "error" \/ chainKind = "failed" THEN "failed" ELSE "stops"
  /\ UNCHANGED saved

\* the preallocation loop, one member per step: lines 98-109
PreallocateEntry ==
  /\ pc = "prealloc"
  /\ preIdx < NumEntries
  /\ LET e == zipFileEntry(archive[preIdx + 1]) IN
       IF NeedsPreallocate(e)
       THEN \E ok \in BOOLEAN :
              IF ok
              THEN /\ prealloc' = [prealloc EXCEPT ![preIdx] = @ + 1]
                   /\ files' = [files EXCEPT ![preIdx] = Preallocated(e.size)]
                   /\ preIdx' = preIdx + 1
                   /\ UNCHANGED outcome
              ELSE /\ Fail(checkpoint)
                   /\ UNCHANGED <<prealloc, files, preIdx>>
       ELSE /\ preIdx' = preIdx + 1
            /\ UNCHANGED <<prealloc, files, outcome>>
  /\ UNCHANGED <<call, saved, loop, stop, copy, sinkOps, lastProg, interrupted, chain, genVars>>

\* lines 110-117
PreallocateDone ==
  /\ pc = "prealloc"
  /\ preIdx >= NumEntries
  /\ pc' = "loop"
  /\ UNCHANGED <<call, checkpoint, result, err, saved, loop, stop, copy, preIdx,
                 files, prealloc, sinkOps, lastProg, interrupted, chain, genVars>>

\* the checkpoint as the loop body sets it up: lines 124-129
Entered == [checkpoint EXCEPT !.entryIndex = entryIndex,
                              !.entry = Some(EntryFor(checkpoint, zf))]

InLoop == pc = "loop" /\ LoopContinues(entryIndex, NumEntries, stopError)

\* a directory entry: lines 134-138
DoDir ==
  /\ InLoop
  /\ Entered.entry[1].kind = "Dir"
  /\ \E ok \in BOOLEAN :
       IF ok
       THEN /\ sinkOps' = Append(sinkOps, entryIndex)
            /\ FinishEntry(Entered)
       ELSE /\ Fail(Entered)
            /\ UNCHANGED <<sinkOps, loop, copy>>
  /\ UNCHANGED <<call, saved, stop, preIdx, files, prealloc, lastProg,
                 interrupted, chain, genVars>>

\* a symlink entry: lines 139-155
DoSymlink ==
  /\ InLoop
  /\ Entered.entry[1].kind = "Symlink"
  /\ \E ok \in BOOLEAN :
       IF ok
       THEN /\ sinkOps' = Append(sinkOps, entryIndex)
            /\ FinishEntry(Entered)
       ELSE /\ Fail(Entered)
            /\ UNCHANGED <<sinkOps, loop, copy>>
  /\ UNCHANGED <<call, saved, stop, preIdx, files, prealloc, lastProg,
                 interrupted, chain, genVars>>

\* a file entry, up to the choice of a Source: lines 156-184
BeginFile ==
  /\ InLoop
  /\ Entered.entry[1].kind = "File"
  /\ IF zf.method \in ResumableMethods
     THEN \E ok \in BOOLEAN :
            IF ok
            THEN /\ checkpoint' = Entered
                 /\ pc' = "src_resume"
                 /\ UNCHANGED <<result, err>>
            ELSE Fail(Entered)
     ELSE /\ checkpoint' = [Entered EXCEPT !.entry[1].writeOffset = 0]
          /\ pc' = "fallback"
          /\ UNCHANGED <<result, err>>
  /\ UNCHANGED <<call, saved, loop, stop, copy, preIdx, files, prealloc,
                 sinkOps, lastProg, interrupted, chain, genVars>>

\* the one-shot copy of an unsupported-method entry: lines 186-201
FallbackCopy ==
  /\ pc = "fallback"
  /\ \E opened \in BOOLEAN :
       IF opened
       THEN /\ sinkOps' = Append(sinkOps, entryIndex)
            /\ \E k \in 0..zf.size :
                 /\ files' = [files EXCEPT ![entryIndex] =
                                WriteAt(@, entry.writeOffset, SubSeq(Data(zf.size), 1, k))]
                 /\ IF k = zf.size
                    THEN /\ FinishEntry(checkpoint)
                         /\ UNCHANGED interrupted
                    ELSE /\ Fail(checkpoint)
                         /\ interrupted' = Some(entryIndex)
                         /\ UNCHANGED <<loop, copy>>
       ELSE /\ Fail(checkpoint)
            /\ UNCHANGED <<sinkOps, files, loop, copy, interrupted>>
  /\ UNCHANGED <<call, saved, stop, preIdx, prealloc, lastProg, chain, genVars>>

\* src.Resume(checkpoint.SourceCheckpoint): lines 203-206
SourceResume ==
  /\ pc = "src_resume"
  /\ \E ok \in BOOLEAN :
       IF ok
       THEN /\ srcOff' = SourceResumeOffset(checkpoint.sourceCheckpoint)
            /\ align' = Some([w |-> entry.writeOffset,
                              p |-> SourceResumeOffset(checkpoint.sourceCheckpoint),
                              discarded |-> 0, opened |-> FALSE])
            /\ pc' = "align"
            /\ UNCHANGED <<result, err, checkpoint>>
       ELSE /\ Fail(checkpoint)
            /\ UNCHANGED <<srcOff, align>>
  /\ UNCHANGED <<call, saved, loop, stop, writerPos, wantSave, firstWrite,
                 writerOps, preIdx, files, prealloc, sinkOps, lastProg,
                 interrupted, chain, genVars>>

\* alignment of the Source with the writer: lines 208-216
Align ==
  /\ pc = "align"
  /\ LET delta == AlignDelta(srcOff, entry.writeOffset) IN
       \* DiscardByRead fails when it meets the end of the stream or a read error
       \E ok \in BOOLEAN :
         IF ok /\ srcOff + delta <= zf.size
         THEN /\ srcOff' = srcOff + delta
              /\ align' = Some([align[1] EXCEPT !.discarded = delta])
              /\ pc' = "open"
              /\ UNCHANGED <<result, err, checkpoint>>
         ELSE /\ delta > 0
              /\ Fail(checkpoint)
              /\ UNCHANGED <<srcOff, align>>
  /\ UNCHANGED <<call, saved, loop, stop, writerPos, wantSave, firstWrite,
                 writerOps, preIdx, files, prealloc, sinkOps, lastProg,
                 interrupted, chain, genVars>>

\* GetWriter, SetSourceSaveConsumer and the start of copier.Do: lines 219-229, 257
OpenWriter ==
  /\ pc = "open"
  /\ \E ok \in BOOLEAN :
       IF ok
       THEN /\ align' = Some([align[1] EXCEPT !.opened = TRUE])
            /\ sinkOps' = Append(sinkOps, entryIndex)
            /\ writerPos' = entry.writeOffset
            /\ writerOps' = <<"GetWriter">>
            /\ copierStop' = FALSE
            /\ wantSave' = FALSE
            /\ pc' = "copy"
            /\ UNCHANGED <<result, err, checkpoint>>
       ELSE /\ Fail(checkpoint)
            /\ UNCHANGED <<align, sinkOps, writerPos, writerOps, copierStop, wantSave>>
  /\ UNCHANGED <<call, saved, loop, stopError, stopAt, srcOff, firstWrite,
                 preIdx, files, prealloc, lastProg, interrupted, chain, genVars>>

\* the Source reaches a safe point and calls OnSave: lines 230-254
SourceSave ==
  /\ pc = "copy"
  /\ wantSave
  /\ wantSave' = FALSE
  /\ LET cp1 == WithSourceCheckpoint(checkpoint, NewSourceCheckpoint(zf.method, srcOff))
         cp2 == [cp1 EXCEPT
                   !.progress = computeProgress(doneBytes, entry.writeOffset, totalBytes)]
     IN \E syncFailed \in BOOLEAN, verdict \in {"saveError", "continue", "stop"} :
          LET synced == Append(writerOps, IF syncFailed THEN "SyncErr" ELSE "Sync") IN
          IF ~SaveCalled(syncFailed)
          THEN /\ Fail(cp1)
               /\ writerOps' = Last2(synced)
               /\ UNCHANGED <<saved, lastProg, stop>>
          ELSE /\ writerOps' = Last2(Append(synced, "Save"))
               /\ Report(cp2.progress)
               /\ CASE verdict = "saveError" ->
                         /\ Fail(cp2)
                         /\ UNCHANGED <<saved, stop>>
                    [] verdict = "continue" ->
                         /\ checkpoint' = cp2
                         /\ saved' = Some(cp2)
                         /\ UNCHANGED <<pc, result, err, stop>>
                    [] verdict = "stop" ->
                         /\ checkpoint' = cp2
                         /\ saved' = Some(cp2)
                         /\ copierStop' = TRUE
                         /\ stopError' = TRUE
                         /\ stopAt' = Some(entryIndex)
                         /\ UNCHANGED <<pc, result, err>>
  /\ UNCHANGED <<call, loop, srcOff, writerPos, align, firstWrite, preIdx,
                 files, prealloc, sinkOps, interrupted, chain, genVars>>

\* one round of the Copier loop that moves n bytes and emits progress:
\* lines 257-270
CopyChunk ==
  /\ pc = "copy"
  /\ ~wantSave
  /\ srcOff < zf.size
  /\ \E n \in 1..(zf.size - srcOff), ok \in BOOLEAN, should \in BOOLEAN :
       IF ok
       THEN LET bytes == SubSeq(Data(zf.size), srcOff + 1, srcOff + n)
                cp1 == [checkpoint EXCEPT !.entry[1].writeOffset = @ + n]
            IN /\ files' = [files EXCEPT ![entryIndex] = WriteAt(@, writerPos, bytes)]
               /\ Report(computeProgress(doneBytes, cp1.entry[1].writeOffset, totalBytes))
               /\ IF copierStop
                  THEN FinishEntry(cp1)
                  ELSE /\ checkpoint' = cp1
                       /\ writerPos' = writerPos + n
                       /\ srcOff' = srcOff + n
                       /\ firstWrite' =
                            IF firstWrite = Nil
                            THEN Some([pos |-> writerPos, byte |-> bytes[1], low |-> writerPos])
                            ELSE Some([firstWrite[1] EXCEPT
                                         !.low = IF writerPos < @ THEN writerPos ELSE @])
                       /\ wantSave' = should
                       /\ writerOps' = Last2(Append(writerOps, "Write"))
                       /\ UNCHANGED <<pc, result, err, loop, align>>
       ELSE /\ Fail(checkpoint)
            /\ UNCHANGED <<files, lastProg, loop, copy>>
  /\ UNCHANGED <<call, saved, stop, preIdx, prealloc, sinkOps, interrupted, chain, genVars>>

\* the Source is exhausted: copier.Do returns nil
CopyEOF ==
  /\ pc = "copy"
  /\ ~wantSave
  /\ srcOff >= zf.size
  /\ FinishEntry(checkpoint)
  /\ UNCHANGED <<call, saved, stop, preIdx, files, prealloc, sinkOps, lastProg,
                 interrupted, chain, genVars>>

\* the loop is left: lines 285-296
Return ==
  /\ pc = "loop"
  /\ ~LoopContinues(entryIndex, NumEntries, stopError)
  /\ pc' = "returned"
  /\ result' = IF stopError THEN Nil ELSE Some(ResultEntries(archive, startIndex))
  /\ err' = IF stopError THEN "ErrStop" ELSE "nil"
  /\ UNCHANGED <<call, checkpoint, saved, loop, stop, copy, preIdx, files,
                 prealloc, sinkOps, lastProg, interrupted, chain, genVars>>

Next ==
  \/ StartFresh
  \/ StartResume
  \/ PreallocateEntry
  \/ PreallocateDone
  \/ DoDir
  \/ DoSymlink
  \/ BeginFile
  \/ FallbackCopy
  \/ SourceResume
  \/ Align
  \/ OpenWriter
  \/ SourceSave
  \/ CopyChunk
  \/ CopyEOF
  \/ Return

Spec == Init /\ [][Next]_vars

\* ---- a caller that hands Resume any checkpoint of this archive ------------
\* checkpoints whose index, entry snapshot and offsets lie within the archive,
\* consistent or not
CallerCheckpoints ==
  {[entryIndex |-> NumEntries, progress |-> <<0, 1>>, entry |-> Nil, sourceCheckpoint |-> Nil]}
  \cup UNION {
         {[entryIndex |-> i, progress |-> <<0, 1>>, entry |-> e, sourceCheckpoint |-> sc] :
            e \in {Nil} \cup {Some([zipFileEntry(archive[i + 1]) EXCEPT !.writeOffset = w]) :
                                w \in 0..archive[i + 1].size},
            sc \in {Nil} \cup {Some([offset |-> o]) : o \in 0..archive[i + 1].size}}
         : i \in Indices}

\* Resume(cp, sink) as the first call of a process, with a checkpoint read
\* back from storage
StartAny ==
  /\ pc = "init"
  /\ \E cp \in CallerCheckpoints : Begin(cp, FALSE)
  /\ saved' = Nil
  /\ chainKind' = "fresh"

NextAny == Next \/ StartAny

SpecAny == Init /\ [][NextAny]_vars

\* the steps of one Resume call, after its entry
Steps ==
  \/ PreallocateEntry
  \/ PreallocateDone
  \/ DoDir
  \/ DoSymlink
  \/ BeginFile
  \/ FallbackCopy
  \/ SourceResume
  \/ Align
  \/ OpenWriter
  \/ SourceSave
  \/ CopyChunk
  \/ CopyEOF
  \/ Return

\* Resume is sequential code: when every call it makes on the Source, the
\* Sink, the Copier and the SaveConsumer returns, its next step is taken
SpecAnyFair == SpecAny /\ WF_vars(Steps)

\* ---- the formulas generator (gen.go) ---------------------------------------
\* log.Fatal and the return of main both end the process
Running == mainPc \notin {"fatal", "exit"}

\* numTasks++; go work(osarch)
Spawn ==
  /\ mainPc = "spawn"
  /\ numTasks < Len(osarches)
  /\ numTasks' = numTasks + 1
  /\ wpc' = [wpc EXCEPT ![osarches[numTasks + 1]] = "hash"]
  /\ UNCHANGED <<mainPc, received, mapMutex, depSpecMap, generated, zipVars>>

\* the spawning loop is over
SpawnDone ==
  /\ mainPc = "spawn"
  /\ numTasks >= Len(osarches)
  /\ mainPc' = "wait"
  /\ UNCHANGED <<wpc, numTasks, received, mapMutex, depSpecMap, generated, zipVars>>

\* a goroutine downloads and hashes its archive; must() ends the process on
\* any error
Hash(o) ==
  /\ Running
  /\ wpc[o] = "hash"
  /\ \E ok \in BOOLEAN :
       IF ok
       THEN /\ wpc' = [wpc EXCEPT ![o] = "lock"]
            /\ UNCHANGED mainPc
       ELSE /\ mainPc' = "fatal"
            /\ UNCHANGED wpc
  /\ UNCHANGED <<numTasks, received, mapMutex, depSpecMap, generated, zipVars>>

\* mapMutex.Lock()
Lock(o) ==
  /\ Running
  /\ wpc[o] = "lock"
  /\ CanLock(mapMutex)
  /\ mapMutex' = Some(o)
  /\ wpc' = [wpc EXCEPT ![o] = "write"]
  /\ UNCHANGED <<mainPc, numTasks, received, depSpecMap, generated, zipVars>>

\* depSpecMap[osarch] = ds
WriteMap(o) ==
  /\ Running
  /\ wpc[o] = "write"
  /\ depSpecMap' = depSpecMap \cup {o}
  /\ wpc' = [wpc EXCEPT ![o] = "unlock"]
  /\ UNCHANGED <<mainPc, numTasks, received, mapMutex, generated, zipVars>>

\* the deferred mapMutex.Unlock()
Unlock(o) ==
  /\ Running
  /\ wpc[o] = "unlock"
  /\ mapMutex' = Nil
  /\ wpc' = [wpc EXCEPT ![o] = "send"]
  /\ UNCHANGED <<mainPc, numTasks, received, depSpecMap, generated, zipVars>>

\* the deferred done <- true meets a <-done of main: the channel is unbuffered
SendDone(o) ==
  /\ wpc[o] = "send"
  /\ mainPc = "wait"
  /\ received < numTasks
  /\ received' = received + 1
  /\ wpc' = [wpc EXCEPT ![o] = "done"]
  /\ UNCHANGED <<mainPc, numTasks, mapMutex, depSpecMap, generated, zipVars>>

\* the receiving loop is over
WaitDone ==
  /\ mainPc = "wait"
  /\ received >= numTasks
  /\ mainPc' = "generate"
  /\ UNCHANGED <<wpc, numTasks, received, mapMutex, depSpecMap, generated, zipVars>>

\* os.Create and packageTemplate.Execute over depSpecMap
Generate ==
  /\ mainPc = "generate"
  /\ \E ok \in BOOLEAN :
       IF ok
       THEN /\ generated' = Some(depSpecMap)
            /\ mainPc' = "exit"
       ELSE /\ mainPc' = "fatal"
            /\ UNCHANGED generated
  /\ UNCHANGED <<wpc, numTasks, received, mapMutex, depSpecMap, zipVars>>

WorkerStep(o) == Hash(o) \/ Lock(o) \/ WriteMap(o) \/ Unlock(o) \/ SendDone(o)

MainStep == Spawn \/ SpawnDone \/ WaitDone \/ Generate

NextGen ==
  \/ Spawn
  \/ SpawnDone
  \/ \E o \in OsArchSet : Hash(o)
  \/ \E o \in OsArchSet : Lock(o)
  \/ \E o \in OsArchSet : WriteMap(o)
  \/ \E o \in OsArchSet : Unlock(o)
  \/ \E o \in OsArchSet : SendDone(o)
  \/ WaitDone
  \/ Generate

\* the generator runs on its own; the Go scheduler lets every goroutine that
\* can take a step take it
InitGen == Init /\ archive = <<>>

SpecGen ==
  /\ InitGen
  /\ [][NextGen]_vars
  /\ WF_vars(MainStep)
  /\ \A o \in OsArchSet : WF_vars(WorkerStep(o))

TypeOK ==
  /\ pc \in {"init", "prealloc", "loop", "src_resume", "align", "open", "fallback", "copy", "returned"}
  /\ result \in {Nil} \cup {Some(ResultEntries(archive, i)) : i \in 0..NumEntries}
  /\ err \in {"nil", "ErrStop", "error"}
  /\ entryIndex \in 0..NumEntries

\* ---- properties -----------------------------------------------------------
IsFile(i) == archive[i + 1].kind = "File"

\* what a single uninterrupted Resume(nil) leaves in entry i's file
Expected(i) == IF IsFile(i) THEN Data(archive[i + 1].size) ELSE <<>>

Completed == pc = "returned" /\ result # Nil

\* a <= b for progress values
ProgLeq(a, b) == a[1] * b[2] <= b[1] * a[2]

\* C1: Round-trip integrity: when a chain Resume(nil), Resume(last offered
\* checkpoint), ... interrupted only by stops completes, every destination
\* file holds exactly the bytes an uninterrupted Resume(nil) leaves.
C1_RoundTrip ==
  (Completed /\ chainKind # "failed") => \A i \in Indices : files[i] = Expected(i)

\* a chain of stopped calls, resumed inside a deflate file whose saved source
\* checkpoint lies below the write offset, has completed
C1_Witness ==
  /\ Completed
  /\ chainKind = "stops"
  /\ \E i \in Indices : 
       /\ startIndex = i
       /\ archive[i + 1].kind = "File"
       /\ archive[i + 1].method = "Deflate"
       /\ saved # Nil
       /\ saved[1].entryIndex = i
       /\ saved[1].sourceCheckpoint[1].offset < saved[1].entry[1].writeOffset
  /\ \A i \in Indices : files[i] = Expected(i)

\* C2: Inconsistent-checkpoint rejection (the claim as stated): once
\* Source.Resume has returned a produced offset above the entry's writeOffset,
\* Resume has failed with an error, without GetWriter and without copying.
C2_RejectsAhead ==
  (align # Nil /\ align[1].p > align[1].w)
    => /\ ~align[1].opened
       /\ firstWrite = Nil
       /\ pc \in {"align", "open", "returned"}
       /\ pc = "returned" => err = "error"

\* C3: Alignment correctness: with w >= p exactly w - p bytes are dropped
\* before GetWriter, the Source then stands at w, the first byte written is
\* the byte of output offset w at offset w, and nothing below w is written.
C3_Alignment ==
  (align # Nil /\ align[1].p <= align[1].w)
    => /\ pc = "open" => (align[1].discarded = align[1].w - align[1].p /\ srcOff = align[1].w)
       /\ align[1].opened => align[1].discarded = align[1].w - align[1].p
       /\ (align[1].opened /\ firstWrite # Nil)
            => /\ firstWrite[1].pos = align[1].w
               /\ firstWrite[1].byte = align[1].w + 1
               /\ firstWrite[1].low >= align[1].w

\* a resumed deflate entry whose Source restarted below the writer and whose
\* copy has begun
C3_Witness ==
  /\ align # Nil
  /\ align[1].p < align[1].w
  /\ align[1].opened
  /\ align[1].discarded > 0
  /\ firstWrite # Nil

\* C4: Pre-allocation occurs exactly once: a fresh call preallocates every
\* file entry once, and nothing else, before its first Mkdir, Symlink or
\* GetWriter; a resumed call never preallocates.
C4_Preallocate ==
  /\ \A i \in Indices : prealloc[i] <= (IF isFresh /\ IsFile(i) THEN 1 ELSE 0)
  /\ (isFresh /\ (sinkOps # <<>> \/ pc \in {"loop", "src_resume", "align", "open", "fallback", "copy"} \/ Completed))
        => \A i \in Indices : prealloc[i] = (IF IsFile(i) THEN 1 ELSE 0)

\* a fresh call on an archive with a file and a non-file entry, past its first
\* per-entry Sink operation
C4_Witness ==
  /\ isFresh
  /\ sinkOps # <<>>
  /\ \E i \in Indices : prealloc[i] = 1
  /\ \E i \in Indices : ~IsFile(i) /\ prealloc[i] = 0

\* a resumed call past its first per-entry Sink operation, nothing preallocated
C4_WitnessResumed ==
  /\ ~isFresh
  /\ pc # "init"
  /\ sinkOps # <<>>
  /\ \E i \in Indices : IsFile(i)
  /\ \A i \in Indices : prealloc[i] = 0

\* C5: Fallback entries restart wholly (the claim as stated): in the call that
\* resumes from the last offered checkpoint after an unsupported-method entry j
\* was interrupted, no Sink operation touches an entry completed before, i.e.
\* an entry below j.
C5_FallbackRestart ==
  (resumedAfter # Nil /\ ~isFresh)
    => \A k \in 1..Len(sinkOps) : sinkOps[k] >= resumedAfter[1]

\* C6: Monotonic progress: no progress value of a call is below the value
\* reported before it in the same call.
C6_Monotonic ==
  [][(lastProg # Nil /\ lastProg' # Nil) => ProgLeq(lastProg[1], lastProg'[1])]_vars

\* progress reported while copying the second of two resumable files of one
\* call, the first of which reported progress too
C6_Witness ==
  /\ pc = "copy"
  /\ entryIndex = 1
  /\ startIndex = 0
  /\ archive[1].kind = "File"
  /\ archive[1].method \in ResumableMethods
  /\ archive[1].size > 0
  /\ lastProg # Nil
  /\ lastProg[1][1] > doneBytes

\* C7: Progress reaches 1.0 (the claim as stated): when Resume returns a
\* result for an archive with payload, the last progress value reported is
\* exactly 1.0.
C7_ReachesOne ==
  (Completed /\ totalBytes > 0) => (lastProg # Nil /\ lastProg[1][2] > 0 /\ lastProg[1][1] = lastProg[1][2])

\* C8: Progress range: every progress value reported or stored in a checkpoint
\* has a positive denominator and lies in [0,1].
InRange(p) == p[2] > 0 /\ 0 <= p[1] /\ p[1] <= p[2]

C8_ProgressRange ==
  /\ lastProg # Nil => InRange(lastProg[1])
  /\ InRange(checkpoint.progress)
  /\ saved # Nil => InRange(saved[1].progress)

\* progress reported in a call resumed from a saved checkpoint inside the
\* second entry
C8_Witness ==
  /\ ~isFresh
  /\ startIndex >= 1
  /\ lastProg # Nil
  /\ saved # Nil
  /\ lastProg[1][1] = lastProg[1][2]

\* C9: Entry order and untouched prefix: the per-entry Sink operations of a
\* call run on strictly ascending indices, none below the index the call
\* started from.
C9_EntryOrder ==
  \A k \in 1..Len(sinkOps) :
    /\ sinkOps[k] >= startIndex
    /\ k < Len(sinkOps) => sinkOps[k] < sinkOps[k + 1]

\* a call started at entry 1 that has operated on entry 1 only
C9_Witness ==
  /\ startIndex = 1
  /\ sinkOps = <<1>>

\* a call started at entry 0 that has operated on entries 0 and 1
C9_WitnessBoth ==
  /\ startIndex = 0
  /\ sinkOps = <<0, 1>>

\* C10: Stop outcome: once Save has returned stop during entry i, the Copier
\* has been told to stop, no Sink operation runs on an entry above i, and
\* unless an error follows Resume returns a nil result with ErrStop itself.
C10_StopOutcome ==
  stopAt # Nil
    => /\ copierStop
       /\ stopError
       /\ \A k \in 1..Len(sinkOps) : sinkOps[k] <= stopAt[1]
       /\ pc \in {"copy", "loop", "returned"}
       /\ (pc = "returned" /\ err # "error") => (result = Nil /\ err = "ErrStop")

\* Resume returned ErrStop after a stop in entry 0 of a two-entry archive
C10_Witness ==
  /\ stopAt = Some(0)
  /\ NumEntries = 2
  /\ pc = "returned"
  /\ err = "ErrStop"
  /\ result = Nil
  /\ sinkOps = <<0>>

\* C11: Resume returns ErrStop only after a Save of the same call returned
\* stop, and the checkpoint offered to that Save names the entry being copied,
\* carries its entry snapshot with the entry's current writeOffset, and the
\* SourceCheckpoint the Source has just produced.
C11_StopPaired ==
  /\ stopError => (stopAt # Nil /\ saved # Nil)
  /\ (pc = "copy" /\ copierStop) =>
       /\ stopAt = Some(entryIndex)
       /\ saved[1].entryIndex = entryIndex
       /\ saved[1].entry # Nil
       /\ saved[1].entry[1].writeOffset = writerPos
       /\ saved[1].entry[1].writeOffset = entry.writeOffset
       /\ saved[1].sourceCheckpoint # Nil
       /\ saved[1].sourceCheckpoint[1].offset <= srcOff
       /\ (zf.method = "Store" => saved[1].sourceCheckpoint[1].offset = srcOff)
  /\ (pc = "returned" /\ err = "ErrStop") =>
       /\ stopError
       /\ saved[1].entryIndex = stopAt[1]
       /\ saved[1].entry # Nil
       /\ saved[1].sourceCheckpoint # Nil

C11_Witness ==
  /\ pc = "returned"
  /\ err = "ErrStop"
  /\ saved # Nil
  /\ saved[1].entryIndex = 1
  /\ saved[1].entry # Nil
  /\ saved[1].entry[1].writeOffset > 0

\* C12: once an operation of the Sink, of the Source or of the SaveConsumer
\* has returned an error, the call has returned a nil result with an error
\* that is not ErrStop, and as long as that error stands no Sink operation
\* runs and no Save is made: the entry is not retried and no later entry is
\* processed.
C12_FailurePolicy ==
  /\ [](err = "error" => (pc = "returned" /\ result = Nil))
  /\ [][(err = "error" /\ err' = "error") =>
          UNCHANGED <<sinkOps, files, prealloc, saved, writerOps, entryIndex>>]_vars

C12_Witness ==
  /\ pc = "returned"
  /\ err = "error"
  /\ result = Nil
  /\ sinkOps # <<>>
  /\ entryIndex + 1 < NumEntries

\* C13: Resume returns a result exactly when the entry loop ran past the last
\* index with no error and no stop request; the result lists every member of
\* the archive in index order, whatever index the call started from; with an
\* error or a stop the result is nil.
C13_Result ==
  pc = "returned" =>
    /\ (result # Nil) <=> (entryIndex = NumEntries /\ ~stopError /\ err = "nil")
    /\ (err # "nil") => (result = Nil)
    /\ (result # Nil) =>
         /\ Len(result[1]) = NumEntries
         /\ \A i \in 1..NumEntries :
              result[1][i] = [kind |-> archive[i].kind, size |-> archive[i].size,
                              writeOffset |-> 0]

C13_Witness ==
  /\ Completed
  /\ startIndex >= 1
  /\ NumEntries >= 2
  /\ Len(result[1]) = NumEntries

\* C14: every Save is immediately preceded by a successful Sync of the current
\* entry's writer with no write in between, a successful Sync is always
\* followed by the Save of the same callback, and after a failed Sync no Save
\* is made and Resume returns the error.
C14_SyncBeforeSave ==
  /\ \A k \in 1..Len(writerOps) :
       /\ (writerOps[k] = "Save" /\ k = Len(writerOps)) =>
            (k > 1 /\ writerOps[k - 1] = "Sync")
       /\ (writerOps[k] = "Sync") => (k < Len(writerOps) /\ writerOps[k + 1] = "Save")
       /\ (writerOps[k] = "SyncErr") =>
            (k = Len(writerOps) /\ pc = "returned" /\ err = "error" /\ result = Nil)

C14_Witness ==
  /\ pc = "copy"
  /\ writerOps = <<"Sync", "Save">>
  /\ saved # Nil
  /\ saved[1].entry[1].writeOffset = writerPos

C14_WitnessSyncFailed ==
  /\ pc = "returned"
  /\ writerOps = <<"Write", "SyncErr">>

\* C15 (as claimed): while an unsupported-method file entry is being copied
\* the SaveConsumer can request a stop, as it can during a resumable copy.
C15_StopFromAnyFile ==
  (pc = "fallback") => ENABLED (FallbackCopy /\ stopError')

\* C15 (amended): a stop is requested only while a stored or deflated file
\* entry is being copied, never during a directory, a symlink or an
\* unsupported-method (full copy) entry, and Resume then returns ErrStop right
\* after that entry.
C15_StopOnlyResumable ==
  /\ stopError => stopAt # Nil
  /\ (pc = "fallback") => ~stopError
  /\ (stopAt # Nil) =>
       /\ archive[stopAt[1] + 1].kind = "File"
       /\ archive[stopAt[1] + 1].method \in {"Store", "Deflate"}
       /\ entryIndex \in {stopAt[1], stopAt[1] + 1}
  /\ (pc = "returned" /\ err = "ErrStop") => (entryIndex = stopAt[1] + 1)

C15_Witness ==
  /\ pc = "returned"
  /\ err = "ErrStop"
  /\ stopAt = Some(1)
  /\ archive[1].kind = "File"
  /\ archive[1].method = "Other"
  /\ archive[2].method = "Deflate"

\* C16: when Resume returns ErrStop, the checkpoint object still holds what
\* was offered to the stopping Save: the entry index, the entry snapshot with
\* its writeOffset, and the SourceCheckpoint.
C16_CheckpointLeft ==
  (pc = "returned" /\ err = "ErrStop" /\ saved # Nil) =>
    /\ checkpoint.entryIndex = saved[1].entryIndex
    /\ checkpoint.entry = saved[1].entry
    /\ checkpoint.sourceCheckpoint = saved[1].sourceCheckpoint

C18_Accounting ==
  LET before == SumSizes(archive, entryIndex)
      all == SumSizes(archive, NumEntries)
      last == writerOps[Len(writerOps)]
  IN /\ (pc \in {"src_resume", "align", "open", "copy", "fallback"}) =>
          (doneBytes = before /\ totalBytes = all)
     /\ (pc = "copy" /\ writerOps # <<>> /\ last \in {"Write", "Save"}) =>
          (lastProg = Some(<<before + entry.writeOffset, all>>))
     /\ (pc = "copy" /\ writerOps # <<>> /\ last = "Save") =>
          (saved[1].progress = <<before + entry.writeOffset, all>>)

C18_Witness ==
  /\ pc = "copy"
  /\ startIndex = 1
  /\ entryIndex = 1
  /\ doneBytes > 0
  /\ writerOps = <<"Sync", "Save">>
  /\ lastProg = Some(<<doneBytes + entry.writeOffset, totalBytes>>)

\* what is left to do in the entry being processed
Stage ==
  CASE pc = "fallback" -> 1
    [] pc = "copy" -> 1 + 2 * (zf.size - srcOff) + (IF wantSave THEN 1 ELSE 0)
    [] pc = "open" -> 2 * MaxSize + 3
    [] pc = "align" -> 2 * MaxSize + 4
    [] pc = "src_resume" -> 2 * MaxSize + 5
    [] OTHER -> 0

\* a bound on the number of steps a call can still take
Rank ==
  LET K == 2 * MaxSize + 8 IN
  CASE pc = "returned" -> 0
    [] pc = "loop" -> 1 + (NumEntries - entryIndex) * K
    [] pc = "prealloc" -> 2 + NumEntries * K + (NumEntries - preIdx)
    [] pc = "init" -> 3 + NumEntries * (K + 1)
    [] OTHER -> 1 + (NumEntries - entryIndex - 1) * K + Stage

InCall == pc \notin {"init", "returned"}

\* C20: a Resume call started with any checkpoint whose entryIndex lies in
\* 0..number of entries terminates when every collaborator call returns: it
\* always has a next step, every step brings it closer to its return, and it
\* does return, in exactly one of Completed (result, no error), Stopped (nil,
\* ErrStop) or Failed (nil, another error); started at entryIndex = number of
\* entries it completes without any Sink operation.
C20_Terminates ==
  /\ [](InCall => ENABLED Steps)
  /\ [](Rank >= 0)
  /\ [][InCall => Rank' < Rank]_vars
  /\ [](InCall => <>(pc = "returned"))
  /\ [](pc = "returned" =>
          \/ (result # Nil /\ err = "nil")
          \/ (result = Nil /\ err = "ErrStop")
          \/ (result = Nil /\ err = "error"))
  /\ []((pc # "init" /\ startIndex = NumEntries) =>
          /\ sinkOps = <<>>
          /\ \A i \in Indices : prealloc[i] = 0
          /\ (pc = "returned" => Completed))

C20_Witness ==
  /\ Completed
  /\ NumEntries > 0
  /\ startIndex = NumEntries
  /\ sinkOps = <<>>

\* C19: a goroutine writes the shared map only while it holds the mutex, so no
\* two writes overlap; every goroutine that has finished has sent exactly one
\* done value and main has received each of them; main generates the output
\* only after it has received as many values as goroutines it started, one
\* per os/arch, when the map holds an entry for every os/arch; and unless a
\* goroutine fails, which ends the process, nobody blocks forever: main gets
\* to the end.
C19_Generator ==
  /\ [](\A o \in OsArchSet : (wpc[o] \in {"write", "unlock"}) => (mapMutex = Some(o)))
  /\ [](Cardinality({o \in OsArchSet : wpc[o] = "write"}) <= 1)
  /\ [](received = Cardinality({o \in OsArchSet : wpc[o] = "done"}))
  /\ [](numTasks = Cardinality({o \in OsArchSet : wpc[o] # "idle"}))
  /\ []((mainPc \in {"generate", "exit"}) =>
          /\ numTasks = Len(osarches)
          /\ received = numTasks
          /\ \A o \in OsArchSet : wpc[o] = "done"
          /\ depSpecMap = OsArchSet)
  /\ []((mainPc = "exit") => (generated = Some(OsArchSet)))
  /\ <>(mainPc \in {"exit", "fatal"})

C19_Witness ==
  /\ mainPc = "exit"
  /\ generated = Some(OsArchSet)
  /\ received = 5
  /\ mapMutex = Nil

====
